---- MODULE Spec2Model ----
(***************************************************************************)
(* A model of pptx2beamer.py: the extraction of slide content from an      *)
(* unpacked PPTX tree, the title page heuristics, the geometry mapping,    *)
(* the Beamer emitter and the filesystem effects of main().                *)
(*                                                                         *)
(* Python strings are modelled as sequences of one-character strings, so   *)
(* that lower(), endswith(), startswith(), replace(), strip() and          *)
(* re.search() are computed the way Python computes them.                  *)
(***************************************************************************)
EXTENDS Integers, Sequences, FiniteSets, TLC

\* ------------------------------------------------------------------------
\* Bounds of the model
\* ------------------------------------------------------------------------
MaxShapes == 4
MaxSlideShapes == 3
MaxFiles == 2
MaxImages == 1
MaxCoord == 3

\* ------------------------------------------------------------------------
\* Python string primitives
\* ------------------------------------------------------------------------
Uppers == <<"A","B","C","D","E","F","G","H","I","J","K","L","M",
            "N","O","P","Q","R","S","T","U","V","W","X","Y","Z">>
Lowers == <<"a","b","c","d","e","f","g","h","i","j","k","l","m",
            "n","o","p","q","r","s","t","u","v","w","x","y","z">>
Digits == <<"0","1","2","3","4","5","6","7","8","9">>

SeqRange(s) == {s[i] : i \in 1..Len(s)}

\* str.lower() on one character
LowerChar(c) ==
    IF \E i \in 1..26 : Uppers[i] = c
    THEN Lowers[CHOOSE i \in 1..26 : Uppers[i] = c]
    ELSE c

\* str.lower()
Lower(s) == [i \in 1..Len(s) |-> LowerChar(s[i])]

\* str.startswith(pre)
StartsWith(s, pre) ==
    /\ Len(s) >= Len(pre)
    /\ SubSeq(s, 1, Len(pre)) = pre

\* str.endswith(suf)
EndsWith(s, suf) ==
    /\ Len(s) >= Len(suf)
    /\ SubSeq(s, Len(s) - Len(suf) + 1, Len(s)) = suf

\* s[:-n] for n <= len(s); Python yields "" when n >= len(s) > 0
DropLast(s, n) == IF Len(s) > n THEN SubSeq(s, 1, Len(s) - n) ELSE <<>>

\* str.replace(old, new): every non-overlapping occurrence, left to right
RECURSIVE Replace(_, _, _)
Replace(s, old, new) ==
    IF s = <<>> THEN <<>>
    ELSE IF StartsWith(s, old)
         THEN new \o Replace(SubSeq(s, Len(old) + 1, Len(s)), old, new)
         ELSE <<s[1]>> \o Replace(Tail(s), old, new)

IsSpace(c) == c \in {" ", "\t", "\n"}

RECURSIVE LStrip(_)
LStrip(s) ==
    IF s # <<>> /\ IsSpace(s[1]) THEN LStrip(Tail(s)) ELSE s

RECURSIVE RStrip(_)
RStrip(s) ==
    IF s # <<>> /\ IsSpace(s[Len(s)]) THEN RStrip(SubSeq(s, 1, Len(s) - 1)) ELSE s

\* str.strip()
Strip(s) == RStrip(LStrip(s))

\* "".join(parts)
RECURSIVE Join(_)
Join(parts) ==
    IF parts = <<>> THEN <<>> ELSE Head(parts) \o Join(Tail(parts))

IsDigit(c) == c \in SeqRange(Digits)

DigitVal(c) == (CHOOSE i \in 1..10 : Digits[i] = c) - 1

\* int(s) for a string of decimal digits
RECURSIVE DecValue(_)
DecValue(s) ==
    IF s = <<>> THEN 0
    ELSE 10 * DecValue(SubSeq(s, 1, Len(s) - 1)) + DigitVal(s[Len(s)])

\* All sequences over S of length at most n
SeqsUpTo(S, n) == UNION {[1..k -> S] : k \in 0..n}

\* ------------------------------------------------------------------------
\* State
\* ------------------------------------------------------------------------
VARIABLES
    sps,          \* root.findall('.//p:sp') of the slide being walked
    sp_i,         \* number of shapes of sps already visited
    info,         \* parse_title_page_info: the title page record
    slide_info,   \* parse_slides_for_content: the record of the current slide
    dir_names,    \* the names of the entries of ppt/slides
    slide_files,  \* parse_slides_for_content: the sorted list of slide files
    sf_i,         \* number of entries of slide_files already processed
    slide_file,   \* the content of the file read in the last iteration
    slides_data,  \* parse_slides_for_content: the records collected so far
    ps_status,    \* position of parse_slides_for_content / generate_main_tex
    paper_width,  \* main: slide_size['width']
    paper_height, \* main: slide_size['height']
    frames,       \* generate_main_tex: the frames written to overview_eng.tex
    pc,           \* position of main()
    pptx_file,    \* what args.pptx_file names on disk
    template_exists,  \* template_dir.exists()
    out_dir,      \* output_dir: "absent", "stale" (pre-existing) or "fresh"
    template_copied,  \* template assets copied into the output tree
    shared_written,   \* 0-package.tex and 0-macro.tex written in the parent
    fig_dir,      \* output_dir/fig exists
    temp_dir,     \* the tempfile.TemporaryDirectory exists
    media_copied  \* the media files are copied into fig/

shapeVars == <<sps, sp_i, info, slide_info>>
slideVars ==
    <<dir_names, slide_files, sf_i, slide_file, slides_data, ps_status,
      paper_width, paper_height, frames>>
mainVars ==
    <<pc, pptx_file, template_exists, out_dir, template_copied, shared_written,
      fig_dir, temp_dir, media_copied>>
vars == <<shapeVars, slideVars, mainVars>>

\* main() is not running
MainIdle ==
    /\ pc = "none"
    /\ pptx_file = "zip"
    /\ template_exists = FALSE
    /\ out_dir = "absent"
    /\ template_copied = FALSE
    /\ shared_written = FALSE
    /\ fig_dir = FALSE
    /\ temp_dir = FALSE
    /\ media_copied = FALSE

\* the value of slide_file before any file has been read
NoFile ==
    [rels |-> [kind |-> "absent", map |-> <<>>],
     xml |-> [kind |-> "malformed", shapes |-> <<>>, pics |-> <<>>]]

SlidesIdle ==
    /\ dir_names = {}
    /\ slide_files = <<>>
    /\ sf_i = 0
    /\ slide_file = NoFile
    /\ slides_data = <<>>
    /\ ps_status = "idle"
    /\ paper_width = 100
    /\ paper_height = 100
    /\ frames = <<>>

\* ------------------------------------------------------------------------
\* Shapes: <p:sp> elements reduced to the placeholder type and the text runs
\* ------------------------------------------------------------------------
NoPh == "<no p:ph>"
PhTypes == {"title", "ctrTitle", "subtitle", "body"}

str_A == <<"A">>
str_B == <<"B">>
str_blank == <<" ">>

\* [t.text for t in sp.findall('.//a:t', ns) if t.text]
RunTexts(sp) == SelectSeq(sp.runs, LAMBDA t : t # <<>>)

\* "".join(texts).strip()
ShapeText(sp) == Strip(Join(RunTexts(sp)))

\* the two early 'continue's shared by both shape loops
ShapeHasText(sp) == RunTexts(sp) # <<>> /\ ShapeText(sp) # <<>>

\* ------------------------------------------------------------------------
\* parse_title_page_info
\* ------------------------------------------------------------------------
EmptyInfo ==
    [title |-> <<>>, subtitle |-> <<>>, author |-> <<>>,
     institute |-> <<>>, date |-> <<>>]

\* a body step that refills author once institute is filled
TitlePageStepOverwriting(inf, sp) ==
    IF sp.ph = NoPh \/ ~ShapeHasText(sp) THEN inf
    ELSE IF sp.ph = "title" /\ inf.title = <<>>
         THEN [inf EXCEPT !.title = ShapeText(sp)]
    ELSE IF sp.ph = "subtitle" /\ inf.subtitle = <<>>
         THEN [inf EXCEPT !.subtitle = ShapeText(sp)]
    ELSE IF sp.ph = "ctrTitle" /\ inf.title = <<>>
         THEN [inf EXCEPT !.title = ShapeText(sp)]
    ELSE IF sp.ph = "body"
         THEN IF inf.author = <<>> \/ inf.institute # <<>>
              THEN [inf EXCEPT !.author = ShapeText(sp)]
              ELSE IF inf.institute = <<>>
                   THEN [inf EXCEPT !.institute = ShapeText(sp)]
                   ELSE inf
    ELSE inf

\* one iteration of the loop over the shapes of slide1.xml
TitlePageStep(inf, sp) ==
    IF sp.ph = NoPh THEN inf
    ELSE IF ~ShapeHasText(sp) THEN inf
    ELSE IF sp.ph = "title" /\ inf.title = <<>>
         THEN [inf EXCEPT !.title = ShapeText(sp)]
    ELSE IF sp.ph = "subtitle" /\ inf.subtitle = <<>>
         THEN [inf EXCEPT !.subtitle = ShapeText(sp)]
    ELSE IF sp.ph = "ctrTitle" /\ inf.title = <<>>
         THEN [inf EXCEPT !.title = ShapeText(sp)]
    ELSE IF sp.ph = "body"
         THEN IF inf.author = <<>>
              THEN [inf EXCEPT !.author = ShapeText(sp)]
              ELSE IF inf.institute = <<>>
                   THEN [inf EXCEPT !.institute = ShapeText(sp)]
                   ELSE IF inf.date = <<>>
                        THEN [inf EXCEPT !.date = ShapeText(sp)]
                        ELSE inf
    ELSE inf

\* the shapes slide1.xml is drawn from
TitleShapes ==
    [ph : PhTypes, runs : {<<str_A>>, <<str_B, str_blank>>}]
        \cup [ph : {"title", "body"}, runs : {<<str_blank>>}]
        \cup {[ph |-> NoPh, runs |-> <<str_A>>]}

IdleSlideInfo == [number |-> <<>>, images |-> <<>>, title |-> <<>>, texts |-> <<>>]

InitTitle ==
    /\ sps \in SeqsUpTo(TitleShapes, MaxShapes)
    /\ sp_i = 0
    /\ info = EmptyInfo
    /\ slide_info = IdleSlideInfo
    /\ SlidesIdle
    /\ MainIdle

\* parse_title_page_info visits the next shape of slide1.xml
TitlePageShape ==
    /\ sp_i < Len(sps)
    /\ info' = TitlePageStep(info, sps[sp_i + 1])
    /\ sp_i' = sp_i + 1
    /\ UNCHANGED <<sps, slide_info, slideVars, mainVars>>

NextTitle == TitlePageShape

SpecTitle == InitTitle /\ [][NextTitle]_vars

\* ---- C9 -----------------------------------------------------------------
\* The shapes visited so far that carry a placeholder of type t and a
\* non-empty trimmed text, in document order.
Visited == SubSeq(sps, 1, sp_i)
VisitedOf(types) ==
    SelectSeq(Visited, LAMBDA sp : sp.ph \in types /\ ShapeHasText(sp))
NthText(s, n) == IF Len(s) >= n THEN ShapeText(s[n]) ELSE <<>>

\* C9: in parse_title_page_info the body placeholders with non-empty trimmed
\* text fill author, institute and date strictly by encounter order (first,
\* second, third; the fourth and later change nothing), title is the text of
\* the first title/ctrTitle shape and subtitle that of the first subtitle
\* shape, and shapes without a placeholder element contribute nothing.
C9_SlotsByEncounterOrder ==
    /\ info.author = NthText(VisitedOf({"body"}), 1)
    /\ info.institute = NthText(VisitedOf({"body"}), 2)
    /\ info.date = NthText(VisitedOf({"body"}), 3)
    /\ info.title = NthText(VisitedOf({"title", "ctrTitle"}), 1)
    /\ info.subtitle = NthText(VisitedOf({"subtitle"}), 1)

\* Four body placeholders with text have been visited, the first two with
\* different texts, and the date slot is filled.
C9_Witness ==
    /\ Len(VisitedOf({"body"})) >= 4
    /\ ShapeText(VisitedOf({"body"})[1]) # ShapeText(VisitedOf({"body"})[2])
    /\ info.date # <<>>

\* ------------------------------------------------------------------------
\* parse_slides_for_content: the loop over the shapes of one slide
\* ------------------------------------------------------------------------
str_Slide_ == <<"S","l","i","d","e"," ">>

\* slide_info as initialised for the file whose number string is num
DefaultSlideInfo(num) ==
    [number |-> num, images |-> <<>>, title |-> str_Slide_ \o num, texts |-> <<>>]

\* one iteration of the loop over root.findall('.//p:sp')
SlideShapeStep(si, sp) ==
    IF RunTexts(sp) = <<>> THEN si
    ELSE IF ShapeText(sp) = <<>> THEN si
    ELSE IF sp.ph \in {"title", "ctrTitle"}
         THEN IF StartsWith(si.title, str_Slide_)
              THEN [si EXCEPT !.title = ShapeText(sp)]
              ELSE si
    ELSE IF sp.ph = "subtitle" THEN si
    ELSE [si EXCEPT !.texts = Append(@, ShapeText(sp))]

\* the whole loop over the shapes
RECURSIVE SlideShapes(_, _)
SlideShapes(si, shapes) ==
    IF shapes = <<>> THEN si
    ELSE SlideShapes(SlideShapeStep(si, Head(shapes)), Tail(shapes))

\* the shapes a slide is drawn from
SlideShapeKinds ==
    [ph : PhTypes \cup {NoPh},
     runs : {<<>>, <<str_blank>>, <<str_A>>, <<str_Slide_, <<"Z">> >>}]

SlideNums == {<<"1">>, <<"2">>}

InitShapes ==
    /\ sps \in SeqsUpTo(SlideShapeKinds, MaxSlideShapes)
    /\ sp_i = 0
    /\ info = EmptyInfo
    /\ \E num \in SlideNums : slide_info = DefaultSlideInfo(num)
    /\ SlidesIdle
    /\ MainIdle

\* parse_slides_for_content visits the next shape of the slide
SlideShape ==
    /\ sp_i < Len(sps)
    /\ slide_info' = SlideShapeStep(slide_info, sps[sp_i + 1])
    /\ sp_i' = sp_i + 1
    /\ UNCHANGED <<sps, info, slideVars, mainVars>>

NextShapes == SlideShape

SpecShapes == InitShapes /\ [][NextShapes]_vars

\* ---- C8 -----------------------------------------------------------------
\* C8: slide title selection is first-wins: the title of the slide record is
\* the text of the first visited title/ctrTitle shape with non-empty trimmed
\* text, whatever that text is, and it is the "Slide N" default only when no
\* such shape has been visited.
C8_TitleFirstWins ==
    slide_info.title =
        IF VisitedOf({"title", "ctrTitle"}) = <<>>
        THEN str_Slide_ \o slide_info.number
        ELSE ShapeText(VisitedOf({"title", "ctrTitle"})[1])

\* ------------------------------------------------------------------------
\* parse_slides_for_content: enumeration of ppt/slides
\* ------------------------------------------------------------------------
str_slide == <<"s","l","i","d","e">>
str_xml == <<".","x","m","l">>

\* how many digits name carries from position i on
RECURSIVE DigitRun(_, _)
DigitRun(name, i) ==
    IF i <= Len(name) /\ IsDigit(name[i]) THEN 1 + DigitRun(name, i + 1) ELSE 0

\* the pattern slide(\d+)\.xml matches name at position i
MatchesAt(name, i) ==
    LET d == DigitRun(name, i + 5)
    IN  /\ i + 4 <= Len(name)
        /\ SubSeq(name, i, i + 4) = str_slide
        /\ d >= 1
        /\ i + 5 + d + 3 <= Len(name)
        /\ SubSeq(name, i + 5 + d, i + 5 + d + 3) = str_xml

\* re.search(r'slide(\d+)\.xml', name) is not None
HasSlideNumber(name) == \E i \in 1..Len(name) : MatchesAt(name, i)

\* re.search(r'slide(\d+)\.xml', name).group(1), of the leftmost match
SlideNumber(name) ==
    LET i == CHOOSE k \in 1..Len(name) :
                 MatchesAt(name, k) /\ \A j \in 1..(k - 1) : ~MatchesAt(name, j)
    IN  SubSeq(name, i + 5, i + 4 + DigitRun(name, i + 5))

\* slide_dir.glob('slide*.xml')
GlobMatches(name) ==
    /\ Len(name) >= Len(str_slide) + Len(str_xml)
    /\ StartsWith(name, str_slide)
    /\ EndsWith(name, str_xml)

\* sorted(..., key=int(number)): the directory order is arbitrary and the
\* sort is stable, so files with equal keys come in any order
SortedOrders(names) ==
    {f \in [1..Cardinality(names) -> names] :
        /\ \A i, j \in DOMAIN f : i # j => f[i] # f[j]
        /\ \A i, j \in DOMAIN f :
              i < j => DecValue(SlideNumber(f[i])) <= DecValue(SlideNumber(f[j]))}

\* ------------------------------------------------------------------------
\* parse_slides_for_content: the pictures of one slide
\* ------------------------------------------------------------------------
NoBlip == "<no a:blip>"
NoAttr == <<"<no attribute>">>

\* rels[rId].split('/')[-1]
RECURSIVE LastSegment(_)
LastSegment(s) ==
    IF \E i \in 1..Len(s) : s[i] = "/"
    THEN LastSegment(SubSeq(s, (CHOOSE i \in 1..Len(s) : s[i] = "/") + 1, Len(s)))
    ELSE s

str_jfif == <<".","j","f","i","f">>
str_jpg == <<".","j","p","g">>

\* the .jfif -> .jpg renaming of a resolved file name
NormalizeName(img_path) ==
    IF EndsWith(Lower(img_path), str_jfif)
    THEN DropLast(img_path, 5) \o str_jpg
    ELSE img_path

\* int(v) succeeds on an attribute value: optional sign, decimal digits,
\* surrounding white space allowed
UnsignedPart(v) ==
    LET t == Strip(v)
    IN  IF t # <<>> /\ t[1] \in {"+", "-"} THEN Tail(t) ELSE t

IntParses(v) ==
    \/ v = NoAttr
    \/ /\ UnsignedPart(v) # <<>>
       /\ \A i \in 1..Len(UnsignedPart(v)) : IsDigit(UnsignedPart(v)[i])

\* int(elem.get(attr, 0))
IntValue(v) ==
    IF v = NoAttr THEN 0
    ELSE IF Strip(v)[1] = "-" THEN 0 - DecValue(UnsignedPart(v))
    ELSE DecValue(UnsignedPart(v))

\* the coordinates read from the a:xfrm of a picture raise ValueError
XfrmRaises(pic) ==
    /\ pic.xfrm.present
    /\ \/ pic.xfrm.off.present /\ ~(IntParses(pic.xfrm.off.x) /\ IntParses(pic.xfrm.off.y))
       \/ pic.xfrm.ext.present /\ ~(IntParses(pic.xfrm.ext.cx) /\ IntParses(pic.xfrm.ext.cy))

\* position: each of x, y, width, height defaults to 0
PicPosition(pic) ==
    LET off == pic.xfrm.present /\ pic.xfrm.off.present
        ext == pic.xfrm.present /\ pic.xfrm.ext.present
    IN  [x |-> IF off THEN IntValue(pic.xfrm.off.x) ELSE 0,
         y |-> IF off THEN IntValue(pic.xfrm.off.y) ELSE 0,
         width |-> IF ext THEN IntValue(pic.xfrm.ext.cx) ELSE 0,
         height |-> IF ext THEN IntValue(pic.xfrm.ext.cy) ELSE 0]

\* the picture has a blip whose r:embed resolves in rels
PicResolves(pic, rels) == pic.embed # NoBlip /\ pic.embed \in DOMAIN rels

\* the loop over root.findall('.//p:pic'); an exception ends the loop and
\* leaves in slide_info what the earlier iterations have appended
RECURSIVE SlidePics(_, _, _)
SlidePics(si, pics, rels) ==
    IF pics = <<>> THEN si
    ELSE LET pic == Head(pics)
         IN  IF ~PicResolves(pic, rels) THEN SlidePics(si, Tail(pics), rels)
             ELSE IF XfrmRaises(pic) THEN si
             ELSE SlidePics(
                    [si EXCEPT !.images =
                        Append(@, [name |-> NormalizeName(LastSegment(rels[pic.embed])),
                                   position |-> PicPosition(pic)])],
                    Tail(pics), rels)

\* one iteration of the loop over slide_files
ParseSlideFile(name, file) ==
    LET si == DefaultSlideInfo(SlideNumber(name))
    IN  IF file.rels.kind = "absent" THEN [raised |-> FALSE, si |-> si]
        ELSE IF file.rels.kind = "malformed" THEN [raised |-> TRUE, si |-> si]
        ELSE IF file.xml.kind = "malformed" THEN [raised |-> FALSE, si |-> si]
        ELSE [raised |-> FALSE,
              si |-> SlidePics(SlideShapes(si, file.xml.shapes),
                               file.xml.pics, file.rels.map)]

\* ------------------------------------------------------------------------
\* Geometry: convert_ppt_to_beamer_position and is_full_slide_background
\* ------------------------------------------------------------------------
\* Fractions are pairs [n, d] with d > 0, compared by cross multiplication.
\* For slide sizes below 2^31 the IEEE double quotients of the code compare
\* with the doubles 0.02 and 1.0 - 0.02 exactly as the fractions do.
Frac(n, d) == [n |-> n, d |-> d]
FracLeq(a, b) == a.n * b.d <= b.n * a.d

\* tol=0.02
TolNum == 2
TolDen == 100

convert_ppt_to_beamer_position(position, pw, pht) ==
    [x_rel |-> Frac(position.x, pw),
     y_rel |-> Frac(position.y, pht),
     width_rel |-> Frac(position.width, pw),
     height_rel |-> Frac(position.height, pht)]

\* the heuristic with a strict comparison on the horizontal offset
is_full_slide_background_strict(pos_rel) ==
    /\ ~FracLeq(Frac(TolNum, TolDen), pos_rel.x_rel)
    /\ FracLeq(pos_rel.y_rel, Frac(TolNum, TolDen))
    /\ FracLeq(Frac(TolDen - TolNum, TolDen), pos_rel.width_rel)
    /\ FracLeq(Frac(TolDen - TolNum, TolDen), pos_rel.height_rel)

is_full_slide_background(pos_rel) ==
    /\ FracLeq(pos_rel.x_rel, Frac(TolNum, TolDen))
    /\ FracLeq(pos_rel.y_rel, Frac(TolNum, TolDen))
    /\ FracLeq(Frac(TolDen - TolNum, TolDen), pos_rel.width_rel)
    /\ FracLeq(Frac(TolDen - TolNum, TolDen), pos_rel.height_rel)

\* ------------------------------------------------------------------------
\* generate_main_tex
\* ------------------------------------------------------------------------
str_emf == <<".","e","m","f">>
str_pdf == <<".","p","d","f">>
str_tiff == <<".","t","i","f","f">>
str_tif == <<".","t","i","f">>

\* the name an image is referenced by, after the .emf rewriting
ImagePath(name) ==
    IF EndsWith(Lower(name), str_emf) THEN Replace(name, str_emf, str_pdf) ELSE name

\* the image is dropped by the .tiff/.tif rule
SkippedFormat(img_path) ==
    EndsWith(Lower(img_path), str_tiff) \/ EndsWith(Lower(img_path), str_tif)

\* the \includegraphics arguments written for the images of one slide
RECURSIVE ImageIncludes(_, _, _)
ImageIncludes(images, pw, pht) ==
    IF images = <<>> THEN <<>>
    ELSE LET img == Head(images)
             pos == convert_ppt_to_beamer_position(img.position, pw, pht)
             img_path == ImagePath(img.name)
             rest == ImageIncludes(Tail(images), pw, pht)
         IN  IF SkippedFormat(img_path) THEN rest
             ELSE IF is_full_slide_background(pos) THEN rest
             ELSE <<img_path>> \o rest

\* escape_latex on one character
EscapeChar(ch) ==
    CASE ch = "\\" -> <<"\\","t","e","x","t","b","a","c","k","s","l","a","s","h","{","}">>
      [] ch = "&" -> <<"\\","&">>
      [] ch = "%" -> <<"\\","%">>
      [] ch = "$" -> <<"\\","$">>
      [] ch = "#" -> <<"\\","#">>
      [] ch = "_" -> <<"\\","_">>
      [] ch = "{" -> <<"\\","{">>
      [] ch = "}" -> <<"\\","}">>
      [] ch = "~" -> <<"\\","t","e","x","t","a","s","c","i","i","t","i","l","d","e","{","}">>
      [] ch = "^" -> <<"\\","t","e","x","t","a","s","c","i","i","c","i","r","c","u","m","{","}">>
      [] OTHER -> <<ch>>

RECURSIVE escape_latex(_)
escape_latex(text) ==
    IF text = <<>> THEN <<>> ELSE EscapeChar(Head(text)) \o escape_latex(Tail(text))

\* the frame written for one slide
SlideFrame(slide, pw, pht) ==
    [number |-> slide.number,
     title |-> escape_latex(slide.title),
     items |-> [i \in 1..Len(slide.texts) |-> escape_latex(slide.texts[i])],
     includes |-> ImageIncludes(slide.images, pw, pht)]

\* the loop over slides_content: the frames in the order written
RECURSIVE ContentFrames(_, _, _)
ContentFrames(slides_content, pw, pht) ==
    IF slides_content = <<>> THEN <<>>
    ELSE LET slide == Head(slides_content)
             rest == ContentFrames(Tail(slides_content), pw, pht)
         IN  IF slide.number = <<"1">> THEN rest
             ELSE <<SlideFrame(slide, pw, pht)>> \o rest

\* ------------------------------------------------------------------------
\* The slide pipeline of main(): parse_slides_for_content over ppt/slides,
\* then generate_main_tex over its result
\* ------------------------------------------------------------------------
Name(mid) == str_slide \o mid \o str_xml

\* the entries ppt/slides is drawn from
FileNames ==
    {Name(<<"1">>), Name(<<"0","1">>), Name(<<"2">>), Name(<<"1","0">>),
     Name(<<"X">>), Name(<<>>), <<"n","o","t","e","s">> \o str_xml}

str_target_png == <<".",".","/","m","e","d","i","a","/","i","1",".","p","n","g">>
str_target_jfif == <<".",".","/","m","e","d","i","a","/","i","2",".","J","F","I","F">>

RelsKinds ==
    {[kind |-> "absent", map |-> <<>>],
     [kind |-> "malformed", map |-> <<>>],
     [kind |-> "ok", map |-> <<>>],
     [kind |-> "ok", map |-> [r \in {"rId1", "rId2"} |->
                                IF r = "rId1" THEN str_target_png ELSE str_target_jfif]]}

Attr(off, ext) ==
    [present |-> TRUE,
     off |-> [present |-> off # <<>>,
              x |-> IF off # <<>> THEN off[1] ELSE NoAttr,
              y |-> IF off # <<>> THEN off[2] ELSE NoAttr],
     ext |-> [present |-> ext # <<>>,
              cx |-> IF ext # <<>> THEN ext[1] ELSE NoAttr,
              cy |-> IF ext # <<>> THEN ext[2] ELSE NoAttr]]

NoXfrm ==
    [present |-> FALSE,
     off |-> [present |-> FALSE, x |-> NoAttr, y |-> NoAttr],
     ext |-> [present |-> FALSE, cx |-> NoAttr, cy |-> NoAttr]]

pic_plain == [embed |-> "rId1", xfrm |-> Attr(<<<<"5">>, NoAttr>>, <<<<"5","0">>, <<"4","0">> >>)]
pic_jfif == [embed |-> "rId2", xfrm |-> NoXfrm]
pic_badcoord == [embed |-> "rId1", xfrm |-> Attr(<<<<"1",".","5">>, <<"0">> >>, <<>>)]
pic_unresolved == [embed |-> "rId9", xfrm |-> Attr(<<<<"a">>, <<"b">> >>, <<>>)]
pic_noblip == [embed |-> NoBlip, xfrm |-> NoXfrm]

shape_title == [ph |-> "title", runs |-> <<str_A>>]
shape_body == [ph |-> "body", runs |-> <<str_B>>]

XmlKinds ==
    {[kind |-> "malformed", shapes |-> <<>>, pics |-> <<>>]}
    \cup [kind : {"ok"},
          shapes : {<<>>, <<shape_title, shape_body>>},
          pics : {<<>>, <<pic_plain, pic_jfif>>, <<pic_plain, pic_badcoord>>,
                  <<pic_unresolved, pic_noblip>>}]

\* the slide files (XML part and .rels part) an iteration may read
SlideFileContents == [rels : RelsKinds, xml : XmlKinds]

InitSlides ==
    /\ sps = <<>>
    /\ sp_i = 0
    /\ info = EmptyInfo
    /\ slide_info = IdleSlideInfo
    /\ dir_names \in {d \in SUBSET FileNames : Cardinality(d) <= MaxFiles}
    /\ slide_files = <<>>
    /\ sf_i = 0
    /\ slide_file = NoFile
    /\ slides_data = <<>>
    /\ ps_status = "start"
    /\ paper_width = 100
    /\ paper_height = 100
    /\ frames = <<>>
    /\ MainIdle

\* slide_files = sorted(slide_dir.glob('slide*.xml'), key=...)
ListSlides ==
    /\ ps_status = "start"
    /\ LET globbed == {n \in dir_names : GlobMatches(n)}
       IN  IF \E n \in globbed : ~HasSlideNumber(n)
           THEN /\ ps_status' = "raised"
                /\ slide_files' = <<>>
           ELSE /\ ps_status' = "parsing"
                /\ slide_files' \in SortedOrders(globbed)
    /\ UNCHANGED <<shapeVars, mainVars, dir_names, sf_i, slide_file, slides_data,
                   paper_width, paper_height, frames>>

\* one iteration of 'for slide_file in slide_files'
ParseNextSlide ==
    /\ ps_status = "parsing"
    /\ sf_i < Len(slide_files)
    /\ \E file \in SlideFileContents :
         LET r == ParseSlideFile(slide_files[sf_i + 1], file)
         IN  /\ slide_file' = file
             /\ sf_i' = sf_i + 1
             /\ IF r.raised
                THEN /\ ps_status' = "raised"
                     /\ UNCHANGED slides_data
                ELSE /\ slides_data' = Append(slides_data, r.si)
                     /\ UNCHANGED ps_status
    /\ UNCHANGED <<shapeVars, mainVars, dir_names, slide_files,
                   paper_width, paper_height, frames>>

\* return slides_data
ReturnSlides ==
    /\ ps_status = "parsing"
    /\ sf_i = Len(slide_files)
    /\ ps_status' = "returned"
    /\ UNCHANGED <<shapeVars, mainVars, dir_names, slide_files, sf_i, slide_file,
                   slides_data, paper_width, paper_height, frames>>

\* generate_main_tex(output_dir, slides_content, paper_width, paper_height, ...)
GenerateMainTex ==
    /\ ps_status = "returned"
    /\ pc \in {"none", "generate"}
    /\ frames' = ContentFrames(slides_data, paper_width, paper_height)
    /\ ps_status' = "written"
    /\ UNCHANGED <<shapeVars, mainVars, dir_names, slide_files, sf_i, slide_file,
                   slides_data, paper_width, paper_height>>

NextSlides == ListSlides \/ ParseNextSlide \/ ReturnSlides \/ GenerateMainTex

SpecSlides == InitSlides /\ [][NextSlides]_vars

\* ---- C10 ----------------------------------------------------------------
\* the whole name has the form slide<digits>.xml
IsSlideName(name) == MatchesAt(name, 1) /\ Len(name) = 9 + DigitRun(name, 6)

RecordNumbers == [i \in 1..Len(slides_data) |-> DecValue(slides_data[i].number)]

\* C10: enumerating ppt/slides raises no error whatever names the directory
\* holds, and once the slides are returned there is one record per file
\* named slide<digits>.xml, no record for any other file, in increasing
\* numeric order.
C10_NonMatchingIgnored ==
    /\ (ps_status = "raised" => sf_i > 0)
    /\ (ps_status = "returned" =>
          /\ Len(slides_data) = Cardinality({n \in dir_names : IsSlideName(n)})
          /\ \A i \in 1..Len(slides_data) :
                \E n \in dir_names :
                   IsSlideName(n) /\ SlideNumber(n) = slides_data[i].number
          /\ \A i, j \in 1..Len(slides_data) :
                i < j => RecordNumbers[i] <= RecordNumbers[j])

\* ---- C2 -----------------------------------------------------------------
\* processing the file fails: malformed slide XML, malformed .rels XML or a
\* non-integer coordinate on a picture whose reference resolves
SlideFails(file) ==
    \/ file.rels.kind = "malformed"
    \/ /\ file.rels.kind = "ok"
       /\ \/ file.xml.kind = "malformed"
          \/ \E k \in 1..Len(file.xml.pics) :
                /\ PicResolves(file.xml.pics[k], file.rels.map)
                /\ XfrmRaises(file.xml.pics[k])

LastName == slide_files[sf_i]
LastRecord == slides_data[Len(slides_data)]

\* C2: a failure while processing a slide never aborts
\* parse_slides_for_content: every processed file has its record, and the
\* record of a failing slide is the default one (title "Slide N", no texts,
\* no images).
C2_SlideFailureIsolated ==
    /\ (ps_status = "raised" => sf_i = 0)
    /\ (ps_status # "raised" => Len(slides_data) = sf_i)
    /\ (ps_status # "raised" /\ sf_i > 0 /\ SlideFails(slide_file) =>
          LastRecord = DefaultSlideInfo(SlideNumber(LastName)))

\* ---- C3 -----------------------------------------------------------------
\* C3: a slide whose .rels part is absent gets the title and the body texts
\* it would get with a present but empty .rels part, and no images.
C3_AbsentRelsParsedAsEmpty ==
    ps_status # "raised" /\ sf_i > 0 /\ slide_file.rels.kind = "absent" =>
        LET withEmpty ==
                ParseSlideFile(LastName,
                               [slide_file EXCEPT !.rels = [kind |-> "ok", map |-> <<>>]]).si
        IN  /\ LastRecord.title = withEmpty.title
            /\ LastRecord.texts = withEmpty.texts
            /\ LastRecord.images = <<>>

\* ---- C5 -----------------------------------------------------------------
FrameNumbers == [i \in 1..Len(frames) |-> DecValue(frames[i].number)]

\* C5: generate_main_tex writes no frame for the slide of ordinal 1 and
\* exactly one frame for every other slide record, in strictly increasing
\* order of ordinal, whatever form the file name gives the ordinal.
C5_TitleSlideExcluded ==
    ps_status = "written" =>
        /\ FrameNumbers = SelectSeq(RecordNumbers, LAMBDA n : n # 1)
        /\ \A i, j \in 1..Len(frames) : i < j => FrameNumbers[i] < FrameNumbers[j]

\* ------------------------------------------------------------------------
\* generate_main_tex over the record of one slide with positioned images
\* ------------------------------------------------------------------------
ImgName(stem, ext) == stem \o ext

\* the resolved file names the images are drawn from
EmitNames ==
    {ImgName(<<"p">>, <<".","p","n","g">>),
     ImgName(<<"a">>, str_emf),
     ImgName(<<"a">>, <<".","E","M","F">>),
     ImgName(<<"a">>, str_emf \o str_emf),
     ImgName(<<"c">>, str_tif),
     ImgName(<<"c">>, str_tiff),
     ImgName(<<"c">>, <<".","T","I","F","F">>)}

\* slide sizes (width, height) declared by presentation.xml
PaperSizes == {<<100, 100>>, <<60, 50>>}

ZeroPosition == [x |-> 0, y |-> 0, width |-> 0, height |-> 0]
InsetPosition == [x |-> 10, y |-> 10, width |-> 80, height |-> 80]

\* positions around the four thresholds of a 100 x 100 slide
GridPositions ==
    [x : 0..MaxCoord, y : 0..MaxCoord, width : {97, 98, 100}, height : {97, 98, 99}]

EmitImages ==
    [name : {ImgName(<<"p">>, <<".","p","n","g">>)}, position : GridPositions]
        \cup [name : EmitNames, position : {ZeroPosition, InsetPosition}]

InitEmit ==
    /\ sps = <<>>
    /\ sp_i = 0
    /\ info = EmptyInfo
    /\ slide_info = IdleSlideInfo
    /\ dir_names = {}
    /\ slide_files = <<>>
    /\ sf_i = 0
    /\ slide_file = NoFile
    /\ \E num \in SlideNums, images \in SeqsUpTo(EmitImages, MaxImages) :
          slides_data = <<[DefaultSlideInfo(num) EXCEPT !.images = images]>>
    /\ ps_status = "returned"
    /\ \E size \in PaperSizes :
          /\ paper_width = size[1]
          /\ paper_height = size[2]
    /\ frames = <<>>
    /\ MainIdle

NextEmit == GenerateMainTex

SpecEmit == InitEmit /\ [][NextEmit]_vars

\* ---- C6 -----------------------------------------------------------------
\* what the format rules, read case-insensitively on the final extension,
\* make of an image name: nothing for .tiff/.tif, the name with its final
\* extension replaced by .pdf for .emf, the name itself otherwise
C6_Reference(name) ==
    IF EndsWith(Lower(name), str_tiff) \/ EndsWith(Lower(name), str_tif) THEN <<>>
    ELSE IF EndsWith(Lower(name), str_emf) THEN <<DropLast(name, 4) \o str_pdf>>
    ELSE <<name>>

RECURSIVE C6_References(_)
C6_References(images) ==
    IF images = <<>> THEN <<>>
    ELSE (IF is_full_slide_background(
                convert_ppt_to_beamer_position(Head(images).position,
                                               paper_width, paper_height))
          THEN <<>>
          ELSE C6_Reference(Head(images).name))
         \o C6_References(Tail(images))

\* C6: the images of an emitted slide are referenced under the format rules
\* applied case-insensitively: no inclusion for .tiff/.tif, the final .emf
\* (in any letter case) replaced by .pdf with the rest of the name
\* unchanged, every other name unchanged.
C6_FormatRules ==
    ps_status = "written" /\ frames # <<>> =>
        frames[1].includes = C6_References(slides_data[1].images)

\* ---- C7 -----------------------------------------------------------------
\* x/W <= 0.02, y/H <= 0.02, width/W >= 0.98 and height/H >= 0.98
C7_Background(position, W, H) ==
    /\ 50 * position.x <= W
    /\ 50 * position.y <= H
    /\ 50 * position.width >= 49 * W
    /\ 50 * position.height >= 49 * H

RECURSIVE C7_Included(_)
C7_Included(images) ==
    IF images = <<>> THEN <<>>
    ELSE (IF \/ C7_Background(Head(images).position, paper_width, paper_height)
             \/ SkippedFormat(ImagePath(Head(images).name))
          THEN <<>>
          ELSE <<ImagePath(Head(images).name)>>)
         \o C7_Included(Tail(images))

\* C7: an image is classified as a full-slide background exactly when
\* x/W <= 0.02, y/H <= 0.02, width/W >= 0.98 and height/H >= 0.98, and the
\* emitted frame includes exactly the images of a supported format that are
\* not so classified.
C7_BackgroundExcluded ==
    /\ \A i \in 1..Len(slides_data) : \A k \in 1..Len(slides_data[i].images) :
          is_full_slide_background(
              convert_ppt_to_beamer_position(slides_data[i].images[k].position,
                                             paper_width, paper_height))
          <=> C7_Background(slides_data[i].images[k].position,
                            paper_width, paper_height)
    /\ (ps_status = "written" /\ frames # <<>> =>
          frames[1].includes = C7_Included(slides_data[1].images))

\* A frame has been written for a slide whose image lies at relative
\* (x=0.0, y=0.01, width=1.0, height=0.99) and the image was left out.
C7_Witness ==
    /\ ps_status = "written"
    /\ frames # <<>>
    /\ paper_width = 100
    /\ paper_height = 100
    /\ Len(slides_data[1].images) = 1
    /\ slides_data[1].images[1].position = [x |-> 0, y |-> 1, width |-> 100, height |-> 99]
    /\ frames[1].includes = <<>>

\* ------------------------------------------------------------------------
\* main()
\* ------------------------------------------------------------------------
InputKinds == {"missing", "directory", "notzip", "zip"}

InitMain ==
    /\ sps = <<>>
    /\ sp_i = 0
    /\ info = EmptyInfo
    /\ slide_info = IdleSlideInfo
    /\ pptx_file \in InputKinds
    /\ dir_names \in {d \in SUBSET FileNames :
                        /\ Cardinality(d) <= MaxFiles
                        /\ pptx_file # "zip" => d = {}}
    /\ slide_files = <<>>
    /\ sf_i = 0
    /\ slide_file = NoFile
    /\ slides_data = <<>>
    /\ ps_status = "idle"
    /\ paper_width = 100
    /\ paper_height = 100
    /\ frames = <<>>
    /\ pc = "start"
    /\ template_exists \in BOOLEAN
    /\ out_dir \in {"absent", "stale"}
    /\ template_copied = FALSE
    /\ shared_written = FALSE
    /\ fig_dir = FALSE
    /\ temp_dir = FALSE
    /\ media_copied = FALSE

\* if not args.pptx_file.is_file(): sys.exit(1)
CheckInput ==
    /\ pc = "start"
    /\ pc' = IF pptx_file \in {"notzip", "zip"} THEN "prepare" ELSE "exit1"
    /\ UNCHANGED <<shapeVars, slideVars, pptx_file, template_exists, out_dir,
                   template_copied, shared_written, fig_dir, temp_dir, media_copied>>

\* shutil.rmtree(output_dir) if it exists, then output_dir.mkdir(parents=True)
PrepareOutput ==
    /\ pc = "prepare"
    /\ out_dir' = "fresh"
    /\ pc' = "template"
    /\ UNCHANGED <<shapeVars, slideVars, pptx_file, template_exists,
                   template_copied, shared_written, fig_dir, temp_dir, media_copied>>

\* the copy of the template tree
CopyTemplate ==
    /\ pc = "template"
    /\ template_copied' = template_exists
    /\ pc' = "shared"
    /\ UNCHANGED <<shapeVars, slideVars, pptx_file, template_exists, out_dir,
                   shared_written, fig_dir, temp_dir, media_copied>>

\* write_shared_tex_files(output_dir.parent)
WriteSharedTexFiles ==
    /\ pc = "shared"
    /\ shared_written' = TRUE
    /\ pc' = "figdir"
    /\ UNCHANGED <<shapeVars, slideVars, pptx_file, template_exists, out_dir,
                   template_copied, fig_dir, temp_dir, media_copied>>

\* fig_dir.mkdir(parents=True, exist_ok=True)
MakeFigDir ==
    /\ pc = "figdir"
    /\ fig_dir' = TRUE
    /\ pc' = "tempdir"
    /\ UNCHANGED <<shapeVars, slideVars, pptx_file, template_exists, out_dir,
                   template_copied, shared_written, temp_dir, media_copied>>

\* with tempfile.TemporaryDirectory() as temp_dir:
EnterTempDir ==
    /\ pc = "tempdir"
    /\ temp_dir' = TRUE
    /\ pc' = "extract"
    /\ UNCHANGED <<shapeVars, slideVars, pptx_file, template_exists, out_dir,
                   template_copied, shared_written, fig_dir, media_copied>>

\* zipfile.ZipFile(args.pptx_file).extractall(temp_path): BadZipFile is
\* raised for a file that is no zip archive
ExtractArchive ==
    /\ pc = "extract"
    /\ IF pptx_file = "zip"
       THEN /\ pc' = "parse"
            /\ ps_status' = "start"
       ELSE /\ pc' = "raising"
            /\ UNCHANGED ps_status
    /\ UNCHANGED <<shapeVars, dir_names, slide_files, sf_i, slide_file, slides_data,
                   paper_width, paper_height, frames, pptx_file, template_exists,
                   out_dir, template_copied, shared_written, fig_dir, temp_dir,
                   media_copied>>

\* the exception of parse_slides_for_content propagates out of main()
ParseRaises ==
    /\ pc = "parse"
    /\ ps_status = "raised"
    /\ pc' = "raising"
    /\ UNCHANGED <<shapeVars, slideVars, pptx_file, template_exists, out_dir,
                   template_copied, shared_written, fig_dir, temp_dir, media_copied>>

\* the copy of ppt/media into fig/; shutil.copy2 may raise OSError
CopyMedia ==
    /\ pc = "parse"
    /\ ps_status = "returned"
    /\ \E ok \in BOOLEAN :
          /\ media_copied' = ok
          /\ pc' = IF ok THEN "generate" ELSE "raising"
    /\ UNCHANGED <<shapeVars, slideVars, pptx_file, template_exists, out_dir,
                   template_copied, shared_written, fig_dir, temp_dir>>

\* open(filepath, 'w') or a write of generate_main_tex raises OSError
GenerateRaises ==
    /\ pc = "generate"
    /\ ps_status = "returned"
    /\ pc' = "raising"
    /\ UNCHANGED <<shapeVars, slideVars, pptx_file, template_exists, out_dir,
                   template_copied, shared_written, fig_dir, temp_dir, media_copied>>

\* an exception that ends main() without the cleanup of the with block
ExitWithByExceptionLeaking ==
    /\ pc = "raising"
    /\ pc' = "crashed"
    /\ UNCHANGED <<shapeVars, slideVars, pptx_file, template_exists, out_dir,
                   template_copied, shared_written, fig_dir, temp_dir, media_copied>>

\* the with block is left by an exception: TemporaryDirectory.__exit__
\* removes the directory and the exception ends main()
ExitWithByException ==
    /\ pc = "raising"
    /\ temp_dir' = FALSE
    /\ pc' = "crashed"
    /\ UNCHANGED <<shapeVars, slideVars, pptx_file, template_exists, out_dir,
                   template_copied, shared_written, fig_dir, media_copied>>

\* the with block is left normally and main() returns
ExitWith ==
    /\ pc = "generate"
    /\ ps_status = "written"
    /\ temp_dir' = FALSE
    /\ pc' = "done"
    /\ UNCHANGED <<shapeVars, slideVars, pptx_file, template_exists, out_dir,
                   template_copied, shared_written, fig_dir, media_copied>>

NextMain ==
    \/ CheckInput
    \/ PrepareOutput
    \/ CopyTemplate
    \/ WriteSharedTexFiles
    \/ MakeFigDir
    \/ EnterTempDir
    \/ ExtractArchive
    \/ ListSlides
    \/ ParseNextSlide
    \/ ReturnSlides
    \/ ParseRaises
    \/ CopyMedia
    \/ GenerateMainTex
    \/ GenerateRaises
    \/ ExitWithByException
    \/ ExitWith

SpecMain == InitMain /\ [][NextMain]_vars

\* ---- C1 -----------------------------------------------------------------
\* C1: a run of main() that aborts with a fatal error (input missing or not
\* a regular file, or not a valid zip archive) has written nothing: the
\* output directory is neither removed nor created, no template asset is
\* copied, and the shared .tex files are not written.
C1_AbortBeforeAnyWrite ==
    pc = "exit1" \/ (pc = "crashed" /\ pptx_file = "notzip") =>
        /\ out_dir # "fresh"
        /\ ~template_copied
        /\ ~shared_written
        /\ ~fig_dir

\* ---- C4 -----------------------------------------------------------------
\* C4: the temporary extraction directory does not exist in any terminal
\* state of main(): after successful completion, after a failure to open the
\* archive, and after any exception of parsing, media copying or .tex
\* generation.
C4_TempDirRemoved ==
    pc \in {"done", "exit1", "crashed"} => ~temp_dir

\* main() has ended by an exception raised while the slides were parsed,
\* after the temporary directory had been created.
C4_Witness ==
    /\ pc = "crashed"
    /\ ps_status = "raised"
    /\ fig_dir
    /\ ~temp_dir

====
